---- MODULE Spec2Model ----
(***************************************************************************)
(* Model of check_coordinates.py: the single-file extractor                *)
(* get_radar_value_at_coord, the batch pipeline of __main__ and the        *)
(* downloader download_radar_files_for_date.                               *)
(*                                                                         *)
(* Numbers: latitude/longitude, planar coordinates, raw cells, gain,       *)
(* offset and dBZ values are integers (calibrations with integral gain     *)
(* and offset); quotients are kept exact as numerator/denominator and      *)
(* rounded as Python's round() does.                                       *)
(***************************************************************************)
EXTENDS Integers, Sequences, FiniteSets, TLC

VARIABLES
    ex,          \* one call of get_radar_value_at_coord: its inputs, position
                 \* and locals
    listing,     \* os.listdir(H5_DATADIR): the files in listing order
    pos,         \* position of the scanning loop in the listing
    parseddata,  \* the list of returned tuples
    out,         \* position of the printing loop in parseddata
    stdout,      \* the lines printed so far
    pc,          \* position of __main__
    local,       \* the files of H5_DATADIR the downloader sees: filename ->
                 \* "absent", "partial" or "complete"
    dir_exists,  \* whether H5_DATADIR exists
    prefix,      \* filename_date_prefix of the running download
    links,       \* links_to_download
    idx,         \* position of the download loop in links
    console,     \* the lines the running download printed
    runs,        \* number of downloader runs started
    dpc          \* position of download_radar_files_for_date

\* ------------------------------------------------------------------ bounds
MaxCoord == 1
MaxSize == 2
MaxEpoch == 2
MaxFiles == 3
MaxLinks == 2
MaxRuns == 2

\* ------------------------------------------------------- program constants
DBZ_THRESHOLD == 40

\* ------------------------------------------------------------ input domains
Coord == (0 - MaxCoord)..MaxCoord
Sizes == 1..MaxSize
Epochs == 1..MaxEpoch
Gains == {1, 2}
Offsets == {0 - 32, 0}
Scales == {1, 2}
DateTexts == {"20240512", "20240513", "2024-05-12"}
TimeTexts == {"221009", "22:10"}

\* names of the attributes and objects a grid file must hold
AttrNames ==
    {"what", "enddate", "endtime", "how", "gain", "offset", "nodata",
     "undetect", "endepochs", "where", "projdef", "UL_lon", "UL_lat",
     "xscale", "yscale", "dataset"}

\* ------------------------------------------------------------ library model
\* datetime.strptime(date_str + time_str, '%Y%m%d%H%M%S') succeeds
Parseable(date_str, time_str) ==
    /\ date_str \in {"20240512", "20240513"}
    /\ time_str \in {"221009"}

\* CRS(projdef) succeeds
ValidProj(projdef) == projdef \in {"+proj=a", "+proj=b"}

\* transformer.transform(lon, lat): planar <<x, y>> of a lon/lat pair
Transform(projdef, lon, lat) ==
    IF projdef = "+proj=a"
    THEN <<3 * lon + 1, 3 * lat - 2>>
    ELSE <<2 * lon + lat, 2 * lat - lon + 5>>

\* int(round(num / den)) for den > 0: Python rounds halves to even
PyRound(num, den) ==
    LET q == num \div den
        r == num % den
    IN  IF 2 * r < den THEN q
        ELSE IF 2 * r > den THEN q + 1
        ELSE IF q % 2 = 0 THEN q ELSE q + 1

\* f"{real_dbz:.2f} dBZ" of an integral value: sign, integer part, cents
FormatDbz(real_dbz) ==
    <<IF real_dbz < 0 THEN "-" ELSE "",
      IF real_dbz < 0 THEN 0 - real_dbz ELSE real_dbz, "00", "dBZ">>

\* ------------------------------------------------------------- grid files
\* the 2-D dataset: cell (r, c) of pattern k, every raw value at every cell
\* for some k
RawSeq == <<0, 39, 40, 255>>

Cells(ysize, xsize) == (0..(ysize - 1)) \X (0..(xsize - 1))

DataArray(ysize, xsize, k) ==
    [rc \in Cells(ysize, xsize) |->
        RawSeq[((rc[1] * xsize + rc[2] + k) % Len(RawSeq)) + 1]]

BaseFile ==
    [missing |-> {}, enddate |-> "20240512", endtime |-> "221009",
     gain |-> 1, offset |-> 0, nodata |-> 255, undetect |-> 0,
     endepochs |-> 1, projdef |-> "+proj=a", UL_lon |-> 0, UL_lat |-> 0,
     xscale |-> 1, yscale |-> 1, ysize |-> MaxSize, xsize |-> MaxSize,
     data |-> DataArray(MaxSize, MaxSize, 0)]

\* files that differ in geolocation, shape and content
GeomFiles ==
    {[BaseFile EXCEPT !.projdef = p, !.UL_lon = ul[1], !.UL_lat = ul[2],
                      !.xscale = sc[1], !.yscale = sc[2],
                      !.ysize = sh[1], !.xsize = sh[2],
                      !.data = DataArray(sh[1], sh[2], k)] :
        p \in {"+proj=a", "+proj=b"}, ul \in {0, 1} \X {0, 1},
        sc \in Scales \X Scales, sh \in Sizes \X Sizes,
        k \in 0..(Len(RawSeq) - 1)}

\* files that differ in calibration, content and acquisition time
CalibFiles ==
    {[BaseFile EXCEPT !.gain = g, !.offset = o, !.nodata = nd,
                      !.undetect = ud, !.endepochs = e,
                      !.data = DataArray(MaxSize, MaxSize, k)] :
        g \in Gains, o \in Offsets, nd \in {255}, ud \in {0, 255},
        e \in Epochs, k \in 0..(Len(RawSeq) - 1)}

\* files with one required attribute or object absent, with other or
\* unparseable date/time texts, or with an unparseable projection
BrokenFiles ==
    {[BaseFile EXCEPT !.missing = {a}] : a \in AttrNames}
    \cup {[BaseFile EXCEPT !.enddate = d, !.endtime = t] :
            d \in DateTexts, t \in TimeTexts}
    \cup {[BaseFile EXCEPT !.projdef = "garbage"]}

GridFiles == GeomFiles \cup CalibFiles \cup BrokenFiles

\* ------------------------------------------- get_radar_value_at_coord
\* the exception raised while the attributes and the dataset are read, in
\* the order the code reads them; "none" when all are read
MetadataError(f) ==
    IF {"what", "enddate", "endtime", "how"} \cap f.missing # {}
    THEN "KeyError"
    ELSE IF ~Parseable(f.enddate, f.endtime) THEN "ValueError"
    ELSE IF f.missing # {} THEN "KeyError"
    ELSE "none"

\* CRS(projdef): the exception raised for an unparseable projection
ProjectionError(f) == IF ValidProj(f.projdef) THEN "none" ELSE "CRSError"

\* the pixel indices of (lat, lon) in file f
PixelMirrored(f, lat, lon) ==
    LET target == Transform(f.projdef, lon, lat)
        ul == Transform(f.projdef, f.UL_lon, f.UL_lat)
    IN  [col_idx |-> PyRound(target[1] - ul[1], f.xscale),
         row_idx |-> PyRound(target[2] - ul[2], f.yscale)]

Pixel(f, lat, lon) ==
    LET target == Transform(f.projdef, lon, lat)
        ul == Transform(f.projdef, f.UL_lon, f.UL_lat)
    IN  [col_idx |-> PyRound(target[1] - ul[1], f.xscale),
         row_idx |-> PyRound(ul[2] - target[2], f.yscale)]

\* the bounds test that guards the read of the dataset
InGridInclusive(row_idx, col_idx, ysize, xsize) ==
    /\ 0 <= row_idx /\ row_idx <= ysize
    /\ 0 <= col_idx /\ col_idx <= xsize

InGrid(row_idx, col_idx, ysize, xsize) ==
    /\ 0 <= row_idx /\ row_idx < ysize
    /\ 0 <= col_idx /\ col_idx < xsize

\* dset[row_idx, col_idx]: h5py raises for an index outside the shape
ReadCell(f, row_idx, col_idx) ==
    IF <<row_idx, col_idx>> \in DOMAIN f.data
    THEN [raised |-> "none", raw_value |-> f.data[<<row_idx, col_idx>>]]
    ELSE [raised |-> "IndexError", raw_value |-> 0]

\* realvalue and real_dbz of a raw cell
DecodeUndetectFirst(raw_value, gain, offset, nodata_val, undetect_val) ==
    IF raw_value = undetect_val
    THEN [realvalue |-> <<"Undetected (clear air, no return signal)">>,
          real_dbz |-> 0]
    ELSE IF raw_value = nodata_val
    THEN [realvalue |-> <<"No Data (pixel is outside the scan area)">>,
          real_dbz |-> 0]
    ELSE [realvalue |-> FormatDbz((raw_value * gain) + offset),
          real_dbz |-> (raw_value * gain) + offset]

Decode(raw_value, gain, offset, nodata_val, undetect_val) ==
    IF raw_value = nodata_val
    THEN [realvalue |-> <<"No Data (pixel is outside the scan area)">>,
          real_dbz |-> 0]
    ELSE IF raw_value = undetect_val
    THEN [realvalue |-> <<"Undetected (clear air, no return signal)">>,
          real_dbz |-> 0]
    ELSE [realvalue |-> FormatDbz((raw_value * gain) + offset),
          real_dbz |-> (raw_value * gain) + offset]

NoReading == [realvalue |-> <<"Not in data">>, real_dbz |-> 0]

\* step 5 of the function: the reading at a pixel, the cells it read and
\* the exception it raised
ValueAt(f, row_idx, col_idx) ==
    IF InGrid(row_idx, col_idx, f.ysize, f.xsize)
    THEN LET cell == ReadCell(f, row_idx, col_idx)
         IN  [raised |-> cell.raised,
              reads |-> {<<row_idx, col_idx>>},
              reading |-> Decode(cell.raw_value, f.gain, f.offset,
                                 f.nodata, f.undetect)]
    ELSE [raised |-> "none", reads |-> {}, reading |-> NoReading]

\* the returned tuple (end_epoch, realvalue, real_dbz, rawfilename)
Result(f, reading, rawfilename) ==
    [epoch |-> f.endepochs, value |-> reading.realvalue,
     dbz |-> reading.real_dbz, filename |-> rawfilename]

NoResult == [epoch |-> 0, value |-> <<>>, dbz |-> 0, filename |-> ""]

\* the whole call: the exception it raises or the tuple it returns, the
\* pixel it prints and the cells of the dataset it reads
get_radar_value_at_coord(rawfilename, f, lat, lon) ==
    IF MetadataError(f) # "none"
    THEN [raised |-> MetadataError(f), printed |-> <<>>, reads |-> {},
          ret |-> NoResult]
    ELSE IF ProjectionError(f) # "none"
    THEN [raised |-> ProjectionError(f), printed |-> <<>>, reads |-> {},
          ret |-> NoResult]
    ELSE LET px == Pixel(f, lat, lon)
             v == ValueAt(f, px.row_idx, px.col_idx)
         IN  [raised |-> v.raised,
              printed |-> <<px.row_idx, px.col_idx>>,
              reads |-> v.reads,
              ret |-> IF v.raised = "none"
                      THEN Result(f, v.reading, rawfilename)
                      ELSE NoResult]

\* ---------------------------------------------- one call, step by step
FirstCall(f, lat, lon) ==
    [pc |-> "call", rawfilename |-> "a.h5", file |-> f, lat |-> lat,
     lon |-> lon, raised |-> "none", row_idx |-> 0, col_idx |-> 0,
     reads |-> {}, ret |-> NoResult]

exVars == <<ex>>
mainVars == <<listing, pos, parseddata, out, stdout, pc>>
dlVars == <<local, dir_exists, prefix, links, idx, console, runs, dpc>>
vars == <<ex, listing, pos, parseddata, out, stdout, pc, local, dir_exists,
          prefix, links, idx, console, runs, dpc>>

InitExtract ==
    \E f \in GridFiles, lat \in Coord, lon \in Coord :
        ex = FirstCall(f, lat, lon)

\* lines 108-137: open the file, read the attributes and the shape
ReadMetadata ==
    /\ ex.pc = "call"
    /\ ex' = IF MetadataError(ex.file) # "none"
             THEN [ex EXCEPT !.pc = "raised",
                             !.raised = MetadataError(ex.file)]
             ELSE [ex EXCEPT !.pc = "read"]
    /\ UNCHANGED <<mainVars, dlVars>>

\* lines 139-166: build the transform, compute and print the pixel
ResolvePixel ==
    /\ ex.pc = "read"
    /\ ex' = IF ProjectionError(ex.file) # "none"
             THEN [ex EXCEPT !.pc = "raised",
                             !.raised = ProjectionError(ex.file)]
             ELSE LET px == Pixel(ex.file, ex.lat, ex.lon)
                  IN  [ex EXCEPT !.pc = "resolved",
                                 !.row_idx = px.row_idx,
                                 !.col_idx = px.col_idx]
    /\ UNCHANGED <<mainVars, dlVars>>

\* lines 168-186: test the bounds, read and decode the cell, return
ExtractValue ==
    /\ ex.pc = "resolved"
    /\ LET v == ValueAt(ex.file, ex.row_idx, ex.col_idx)
       IN  ex' = IF v.raised # "none"
                 THEN [ex EXCEPT !.pc = "raised", !.raised = v.raised,
                                 !.reads = v.reads]
                 ELSE [ex EXCEPT !.pc = "returned", !.reads = v.reads,
                                 !.ret = Result(ex.file, v.reading,
                                                ex.rawfilename)]
    /\ UNCHANGED <<mainVars, dlVars>>

\* ------------------------------------------------------------- __main__
TARGET == [lat |-> 0, lon |-> 0]

\* the files of a directory: every kind of reading at TARGET, and files
\* whose extraction raises
BatchFiles ==
    {f \in CalibFiles : f.gain = 1 /\ f.offset = 0 /\ f.undetect = 0}
    \cup {[BaseFile EXCEPT !.UL_lon = 1, !.UL_lat = 1]}
    \cup {[BaseFile EXCEPT !.projdef = "garbage"],
          [BaseFile EXCEPT !.missing = {"endepochs"}]}

\* directory entries: grid files named *.h5, and one file of another name
DirEntries ==
    {[suffix |-> ".h5", file |-> f] : f \in BatchFiles}
    \cup {[suffix |-> ".txt",
           file |-> [BaseFile EXCEPT !.data = DataArray(MaxSize, MaxSize, 2)]]}

\* os.listdir: the entries in listing order, under distinct names
Listing(l) ==
    [i \in DOMAIN l |-> [name |-> [stem |-> i, suffix |-> l[i].suffix],
                         file |-> l[i].file]]

\* filename.endswith('.h5')
IsH5(name) == name.suffix = ".h5"

\* dt_utc.strftime('%Y-%m-%d %H:%M:%S') of an epoch below one minute
FormatTime(epoch) == <<1970, 1, 1, 0, 0, epoch>>

\* list.sort(key=lambda x: x[0]): stable, ascending in the epoch
RECURSIVE InsertByEpoch(_, _)
InsertByEpoch(sorted, x) ==
    IF sorted = <<>> THEN <<x>>
    ELSE IF sorted[Len(sorted)].epoch <= x.epoch THEN Append(sorted, x)
    ELSE Append(InsertByEpoch(SubSeq(sorted, 1, Len(sorted) - 1), x),
                sorted[Len(sorted)])

RECURSIVE SortPrefix(_, _)
SortPrefix(s, n) ==
    IF n = 0 THEN <<>> ELSE InsertByEpoch(SortPrefix(s, n - 1), s[n])

Unsorted(s) == s

SortByEpoch(s) == SortPrefix(s, Len(s))

\* the filter of the printing loop
QualifiesAbove(dbz) == dbz > DBZ_THRESHOLD

QualifiesNonNegative(dbz) == dbz >= 0

Qualifies(dbz) == dbz >= DBZ_THRESHOLD

InitMain ==
    /\ \E n \in 0..MaxFiles :
        \E l \in [1..n -> DirEntries] : listing = Listing(l)
    /\ pos = 1
    /\ parseddata = <<>>
    /\ out = 1
    /\ stdout = <<>>
    /\ pc = "scan"

\* a variant of the scanning loop that skips a file whose extraction raises
ScanNextSkipping ==
    /\ pc = "scan"
    /\ pos <= Len(listing)
    /\ pos' = pos + 1
    /\ LET entry == listing[pos]
           o == get_radar_value_at_coord(entry.name, entry.file,
                                         TARGET.lat, TARGET.lon)
       IN  IF IsH5(entry.name) /\ o.raised = "none"
           THEN /\ stdout' = Append(stdout, [kind |-> "pixel",
                                             pixel |-> o.printed])
                /\ parseddata' = Append(parseddata, o.ret)
           ELSE UNCHANGED <<stdout, parseddata>>
    /\ UNCHANGED <<ex, listing, out, pc, dlVars>>

\* lines 194-197: one iteration of the scanning loop
ScanNext ==
    /\ pc = "scan"
    /\ pos <= Len(listing)
    /\ LET entry == listing[pos]
           o == get_radar_value_at_coord(entry.name, entry.file,
                                         TARGET.lat, TARGET.lon)
       IN  IF ~IsH5(entry.name)
           THEN /\ pos' = pos + 1
                /\ UNCHANGED <<stdout, parseddata, pc>>
           ELSE IF o.raised # "none"
           THEN /\ pc' = "crashed"
                /\ UNCHANGED <<stdout, parseddata, pos>>
           ELSE /\ stdout' = Append(stdout, [kind |-> "pixel",
                                             pixel |-> o.printed])
                /\ parseddata' = Append(parseddata, o.ret)
                /\ pos' = pos + 1
                /\ UNCHANGED pc
    /\ UNCHANGED <<ex, listing, out, dlVars>>

\* line 200: sort by time
Sort ==
    /\ pc = "scan"
    /\ pos > Len(listing)
    /\ parseddata' = SortByEpoch(parseddata)
    /\ pc' = "print"
    /\ UNCHANGED <<ex, listing, pos, out, stdout, dlVars>>

\* lines 202-205: one iteration of the printing loop
PrintNext ==
    /\ pc = "print"
    /\ out <= Len(parseddata)
    /\ LET r == parseddata[out]
       IN  stdout' = IF Qualifies(r.dbz)
                     THEN Append(stdout,
                                 [kind |-> "entry",
                                  time |-> FormatTime(r.epoch),
                                  value |-> r.value,
                                  filename |-> r.filename])
                     ELSE stdout
    /\ out' = out + 1
    /\ UNCHANGED <<ex, listing, pos, parseddata, pc, dlVars>>

\* the end of the script
Exit ==
    /\ pc = "print"
    /\ out > Len(parseddata)
    /\ pc' = "done"
    /\ UNCHANGED <<ex, listing, pos, parseddata, out, stdout, dlVars>>

\* ------------------------------------------ download_radar_files_for_date
\* datetime.strptime(date_str, '%Y-%m-%d').strftime('%Y%m%d'); "" when
\* strptime raises ValueError
DatePrefix(date_str) ==
    IF date_str = "2024-05-12" THEN "20240512"
    ELSE IF date_str = "2024-05-13" THEN "20240513"
    ELSE ""

DateStrs == {"2024-05-12", "2024-05-13", "12.05.2024"}

\* the href attributes of the anchors of the server page, in page order;
\* <<>> is an anchor without href
ServerPage ==
    [n \in 1..MaxLinks |->
        [head |-> "Composite.", date |-> "20240512", stem |-> n,
         tail |-> ".h5"]]
    \o <<[head |-> "Composite.", date |-> "20240513", stem |-> 1,
          tail |-> ".h5"],
         [head |-> "Composite.", date |-> "20240512", stem |-> 1,
          tail |-> ".png"],
         [head |-> "Composite.", date |-> "20240513", stem |-> 1,
          tail |-> ".h5.md5"],
         [head |-> "Other.", date |-> "20240512", stem |-> 1,
          tail |-> ".h5"],
         <<>>>>

Hrefs == {ServerPage[i] : i \in 1..Len(ServerPage)} \ {<<>>}

\* href and file_pattern.match(href), file_pattern being
\* "Composite\." + filename_date_prefix + ".*\.h5": anchored at the start
\* only, so a name that goes on after ".h5" matches too
Matches(href, date_prefix) ==
    /\ href # <<>>
    /\ href.head = "Composite."
    /\ href.date = date_prefix
    /\ href.tail \in {".h5", ".h5.md5"}

RECURSIVE SelectLinks(_, _)
SelectLinks(page, date_prefix) ==
    IF page = <<>> THEN <<>>
    ELSE LET rest == SelectLinks(Tail(page), date_prefix)
         IN  IF Matches(Head(page), date_prefix)
             THEN <<Head(page)>> \o rest
             ELSE rest

\* how one GET of a file ends: the whole body written, the request refused
\* or answered with an error status (before the local file is opened), or
\* the stream broken after the local file was opened
Outcomes == {"ok", "refused", "bad_status", "broken_stream"}

InitDownload ==
    /\ local = [h \in Hrefs |-> "absent"]
    /\ dir_exists = FALSE
    /\ prefix = ""
    /\ links = <<>>
    /\ idx = 1
    /\ console = <<>>
    /\ runs = 0
    /\ dpc = "idle"

\* lines 35-47: a call of the function, up to the date check
Start ==
    /\ dpc \in {"idle", "exited"}
    /\ runs < MaxRuns
    /\ runs' = runs + 1
    /\ dir_exists' = TRUE
    /\ links' = <<>>
    /\ idx' = 1
    /\ \E date_str \in DateStrs :
        IF DatePrefix(date_str) = ""
        THEN /\ console' = <<[msg |-> "Starting"],
                             [msg |-> "Invalid date format"]>>
             /\ dpc' = "exited"
             /\ prefix' = ""
        ELSE /\ console' = <<[msg |-> "Starting"]>>
             /\ dpc' = "fetch"
             /\ prefix' = DatePrefix(date_str)
    /\ UNCHANGED <<local, exVars, mainVars>>

\* lines 49-75: fetch the page and collect the matching links
FetchListing ==
    /\ dpc = "fetch"
    /\ \E fetched \in BOOLEAN :
        IF ~fetched
        THEN /\ console' = console \o <<[msg |-> "Fetching"],
                                        [msg |-> "Error fetching"]>>
             /\ dpc' = "exited"
             /\ UNCHANGED links
        ELSE IF SelectLinks(ServerPage, prefix) = <<>>
        THEN /\ console' = console \o <<[msg |-> "Fetching"],
                                        [msg |-> "No files found"]>>
             /\ dpc' = "exited"
             /\ UNCHANGED links
        ELSE /\ console' = console \o <<[msg |-> "Fetching"],
                                        [msg |-> "Found"]>>
             /\ links' = SelectLinks(ServerPage, prefix)
             /\ dpc' = "loop"
    /\ UNCHANGED <<local, dir_exists, prefix, idx, runs, exVars, mainVars>>

\* what a download attempt that ends as `outcome` leaves of the file
LeftBehind(outcome) ==
    IF outcome = "ok" THEN "complete"
    ELSE IF outcome = "broken_stream" THEN "partial"
    ELSE "absent"

\* a variant of the loop body without the try/except: a failed download
\* ends the function
DownloadNextAborting ==
    /\ dpc = "loop"
    /\ idx <= Len(links)
    /\ LET filename == links[idx]
       IN  IF local[filename] # "absent"
           THEN /\ console' = Append(console, [msg |-> "Skipping",
                                               file |-> filename])
                /\ idx' = idx + 1
                /\ UNCHANGED <<local, dpc>>
           ELSE \E outcome \in Outcomes :
                /\ local' = [local EXCEPT ![filename] = LeftBehind(outcome)]
                /\ console' =
                       console \o <<[msg |-> "Downloading",
                                     file |-> filename],
                                    [msg |-> IF outcome = "ok"
                                             THEN "Successfully downloaded"
                                             ELSE "Error downloading",
                                     file |-> filename]>>
                /\ idx' = idx + 1
                /\ dpc' = IF outcome = "ok" THEN dpc ELSE "exited"
    /\ UNCHANGED <<dir_exists, prefix, links, runs, exVars, mainVars>>

\* lines 78-98: one iteration of the download loop
DownloadNext ==
    /\ dpc = "loop"
    /\ idx <= Len(links)
    /\ LET filename == links[idx]
       IN  IF local[filename] # "absent"
           THEN /\ console' = Append(console, [msg |-> "Skipping",
                                               file |-> filename])
                /\ UNCHANGED local
           ELSE \E outcome \in Outcomes :
                /\ local' = [local EXCEPT ![filename] = LeftBehind(outcome)]
                /\ console' =
                       console \o <<[msg |-> "Downloading",
                                     file |-> filename],
                                    [msg |-> IF outcome = "ok"
                                             THEN "Successfully downloaded"
                                             ELSE "Error downloading",
                                     file |-> filename]>>
    /\ idx' = idx + 1
    /\ UNCHANGED <<dir_exists, prefix, links, runs, dpc, exVars, mainVars>>

\* line 100: the loop is over
Finish ==
    /\ dpc = "loop"
    /\ idx > Len(links)
    /\ console' = Append(console, [msg |-> "Process finished"])
    /\ dpc' = "exited"
    /\ UNCHANGED <<local, dir_exists, prefix, links, idx, runs, exVars,
                   mainVars>>

\* ------------------------------------------------------- specifications
NoCall == [FirstCall(BaseFile, 0, 0) EXCEPT !.pc = "idle"]

NoMain ==
    /\ listing = <<>>
    /\ pos = 1
    /\ parseddata = <<>>
    /\ out = 1
    /\ stdout = <<>>
    /\ pc = "idle"

\* the script: the batch pipeline over a directory
Init == InitMain /\ ex = NoCall /\ InitDownload

Next == ScanNext \/ Sort \/ PrintNext \/ Exit

Spec == Init /\ [][Next]_vars

\* one call of get_radar_value_at_coord on any file and point
InitCall == InitExtract /\ NoMain /\ InitDownload

NextCall == ReadMetadata \/ ResolvePixel \/ ExtractValue

SpecExtract == InitCall /\ [][NextCall]_vars

\* runs of the downloader
InitRuns == InitDownload /\ ex = NoCall /\ NoMain

NextRuns == Start \/ FetchListing \/ DownloadNext \/ Finish

SpecDownload == InitRuns /\ [][NextRuns]_vars

\* ================================================================ claims
NODATA_TEXT == <<"No Data (pixel is outside the scan area)">>
UNDETECT_TEXT == <<"Undetected (clear air, no return signal)">>
NOT_IN_DATA_TEXT == <<"Not in data">>

\* a realvalue that reports a measurement
IsMeasuredText(value) == value # <<>> /\ value[Len(value)] = "dBZ"

\* the number a measurement text shows
ShownDbz(value) == IF value[1] = "-" THEN 0 - value[2] ELSE value[2]

\* the pixel lies outside the dataset of f
Outside(f, row, col) ==
    row < 0 \/ row >= f.ysize \/ col < 0 \/ col >= f.xsize

\* ---- one call (SpecExtract)

\* C1: at an in-grid pixel the raw cell v is classified in this order:
\* v = nodata gives NoData with value 0; otherwise v = undetect gives
\* Undetect with value 0; otherwise Measured with value v*gain+offset.
\* So nodata = undetect yields NoData, whatever gain and offset are.
C1_DecodePriority ==
    (ex.pc = "returned" /\ ~Outside(ex.file, ex.row_idx, ex.col_idx)) =>
        LET f == ex.file
            v == f.data[<<ex.row_idx, ex.col_idx>>]
        IN  IF v = f.nodata
            THEN ex.ret.value = NODATA_TEXT /\ ex.ret.dbz = 0
            ELSE IF v = f.undetect
            THEN ex.ret.value = UNDETECT_TEXT /\ ex.ret.dbz = 0
            ELSE /\ IsMeasuredText(ex.ret.value)
                 /\ ShownDbz(ex.ret.value) = v * f.gain + f.offset
                 /\ ex.ret.dbz = v * f.gain + f.offset

\* a cell equal to both sentinels, read under a non-trivial calibration
C1_Witness ==
    /\ ex.pc = "returned"
    /\ ~Outside(ex.file, ex.row_idx, ex.col_idx)
    /\ ex.file.nodata = ex.file.undetect
    /\ ex.file.data[<<ex.row_idx, ex.col_idx>>] = ex.file.nodata
    /\ ex.file.gain = 2 /\ ex.file.offset = 0 - 32
    /\ ex.ret.value = NODATA_TEXT

\* C2: a pixel with row < 0, row >= rows, col < 0 or col >= cols raises
\* nothing, reads no cell and returns "Not in data" with value 0; the
\* dataset is indexed only at a pixel inside it.
C2_OutOfGrid ==
    /\ ex.raised # "IndexError"
    /\ ex.pc = "returned" =>
        /\ Outside(ex.file, ex.row_idx, ex.col_idx) =>
            /\ ex.reads = {}
            /\ ex.ret.value = NOT_IN_DATA_TEXT
            /\ ex.ret.dbz = 0
        /\ ex.reads \subseteq {<<ex.row_idx, ex.col_idx>>}
        /\ ex.reads # {} => ~Outside(ex.file, ex.row_idx, ex.col_idx)
    /\ ex.pc # "returned" => ex.reads = {}

\* the row just below the last one, in a column of the grid
C2_Witness ==
    /\ ex.pc = "returned"
    /\ ex.row_idx = ex.file.ysize
    /\ ex.col_idx >= 0 /\ ex.col_idx < ex.file.xsize
    /\ ex.ret.value = NOT_IN_DATA_TEXT

\* C8: column = round((targetX - originX) / xScale) and
\* row = round((originY - targetY) / yScale): a target at least one pixel
\* south of the origin gets a positive row, one north of it a negative
\* row, and the upper-left corner itself resolves to pixel (0, 0).
C8_PixelArithmetic ==
    ex.pc \in {"resolved", "returned"} =>
        LET f == ex.file
            t == Transform(f.projdef, ex.lon, ex.lat)
            o == Transform(f.projdef, f.UL_lon, f.UL_lat)
        IN  /\ ex.col_idx = PyRound(t[1] - o[1], f.xscale)
            /\ ex.row_idx = PyRound(o[2] - t[2], f.yscale)
            /\ 2 * (ex.col_idx * f.xscale - (t[1] - o[1])) <= f.xscale
            /\ 2 * ((t[1] - o[1]) - ex.col_idx * f.xscale) <= f.xscale
            /\ o[2] - t[2] >= f.yscale => ex.row_idx >= 1
            /\ t[2] - o[2] >= f.yscale => ex.row_idx <= 0 - 1
            /\ (ex.lat = f.UL_lat /\ ex.lon = f.UL_lon) =>
                (ex.row_idx = 0 /\ ex.col_idx = 0)

\* a target south-east of the origin, half a pixel off in the row
C8_Witness ==
    /\ ex.pc = "resolved"
    /\ ex.row_idx > 0 /\ ex.col_idx > 0
    /\ LET t == Transform(ex.file.projdef, ex.lon, ex.lat)
           o == Transform(ex.file.projdef, ex.file.UL_lon, ex.file.UL_lat)
       IN  /\ t[2] < o[2]
           /\ 2 * ((o[2] - t[2]) % ex.file.yscale) = ex.file.yscale

\* the files that differ from f in the textual enddate/endtime only
TextVariants(f) ==
    {[f EXCEPT !.enddate = d, !.endtime = t,
               !.missing = (f.missing \ {"enddate", "endtime"}) \cup m] :
        d \in DateTexts, t \in TimeTexts,
        m \in SUBSET {"enddate", "endtime"}}

\* C6: files that differ in the textual enddate/endtime only (other
\* content, unparseable or absent) have the same outcome: both fail, or
\* both return the same record, whose timestamp is endepochs.
C6_TextFieldsInformational ==
    ex.pc \in {"returned", "raised"} =>
        \A g \in TextVariants(ex.file) :
            LET o == get_radar_value_at_coord(ex.rawfilename, g, ex.lat,
                                              ex.lon)
            IN  /\ (o.raised = "none") = (ex.pc = "returned")
                /\ ex.pc = "returned" =>
                    (o.ret = ex.ret /\ ex.ret.epoch = ex.file.endepochs)

\* ---- the batch pipeline (Spec)

\* the report: the entry lines among the printed lines, in printing order
IsEntry(line) == line.kind = "entry"

Entries == SelectSeq(stdout, IsEntry)

\* the epoch a printed time stands for
EpochOfTime(time) == time[6]

\* the outcome of extracting directory entry i at TARGET
Extraction(i) ==
    get_radar_value_at_coord(listing[i].name, listing[i].file, TARGET.lat,
                             TARGET.lon)

EntriesOf(name) == {k \in DOMAIN Entries : Entries[k].filename = name}

H5Before(n) == {i \in DOMAIN listing : i < n /\ IsH5(listing[i].name)}

\* C3: whatever the listing order, consecutive report entries have
\* non-decreasing acquisition timestamps.
C3_ReportSortedByTime ==
    \A k \in 1..(Len(Entries) - 1) :
        EpochOfTime(Entries[k].time) <= EpochOfTime(Entries[k + 1].time)

\* two qualifying files listed latest first are reported earliest first
C3_Witness ==
    /\ pc = "done"
    /\ Len(listing) >= 2
    /\ IsH5(listing[1].name) /\ IsH5(listing[2].name)
    /\ listing[1].file.endepochs > listing[2].file.endepochs
    /\ Len(Entries) >= 2
    /\ Entries[1].filename = listing[2].name
    /\ Entries[2].filename = listing[1].name

\* C4: after a complete run no report entry shows a value below the
\* threshold, every .h5 file whose reading is Measured with value >=
\* threshold has exactly one entry, and every other file has none.
C4_ThresholdFilter ==
    pc = "done" =>
        /\ \A k \in DOMAIN Entries :
            \E j \in DOMAIN parseddata :
                /\ parseddata[j].filename = Entries[k].filename
                /\ parseddata[j].value = Entries[k].value
                /\ parseddata[j].dbz >= DBZ_THRESHOLD
        /\ \A i \in DOMAIN listing :
            Cardinality(EntriesOf(listing[i].name)) =
                IF /\ IsH5(listing[i].name)
                   /\ IsMeasuredText(Extraction(i).ret.value)
                   /\ Extraction(i).ret.dbz >= DBZ_THRESHOLD
                THEN 1 ELSE 0

\* a reading exactly at the threshold is reported, one just below it and
\* a qualifying file without the suffix are not
C4_Witness ==
    /\ pc = "done"
    /\ Len(listing) = 3
    /\ \E i, j, k \in DOMAIN listing :
        /\ IsH5(listing[i].name) /\ Extraction(i).ret.dbz = DBZ_THRESHOLD
        /\ IsH5(listing[j].name)
        /\ Extraction(j).ret.dbz = DBZ_THRESHOLD - 1
        /\ ~IsH5(listing[k].name)
        /\ Extraction(k).ret.dbz >= DBZ_THRESHOLD
        /\ EntriesOf(listing[i].name) # {}
    /\ Len(Entries) = 1

\* C5: every report entry is a Measured reading; NoData, Undetect and
\* "Not in data" readings are never emitted.
C5_OnlyMeasuredReported ==
    \A k \in DOMAIN Entries :
        /\ IsMeasuredText(Entries[k].value)
        /\ Entries[k].value \notin
               {NODATA_TEXT, UNDETECT_TEXT, NOT_IN_DATA_TEXT}

\* a run that extracted a NoData and an out-of-grid reading and reports
\* a measurement
C5_Witness ==
    /\ pc = "done"
    /\ \E a, b \in DOMAIN parseddata :
        /\ parseddata[a].value = NODATA_TEXT
        /\ parseddata[b].value = NOT_IN_DATA_TEXT
    /\ Len(Entries) = 1

\* C7: when the extraction of a .h5 file fails the run stops there: no
\* later file is extracted and no report entry is emitted, not even for
\* the files extracted before; entries are emitted only after every .h5
\* file was extracted successfully.
C7_AbortOnFirstFailure ==
    /\ \A i \in H5Before(pos) : Extraction(i).raised = "none"
    /\ Len(parseddata) = Cardinality(H5Before(pos))
    /\ pc = "crashed" =>
        /\ Entries = <<>>
        /\ Extraction(pos).raised # "none"
    /\ (Entries # <<>> \/ pc \in {"print", "done"}) =>
        \A i \in DOMAIN listing :
            IsH5(listing[i].name) => Extraction(i).raised = "none"

\* a qualifying file was extracted, then the next file failed
C7_Witness ==
    /\ pc = "crashed"
    /\ pos = 2
    /\ Len(listing) = 3
    /\ IsH5(listing[3].name)
    /\ Len(parseddata) = 1
    /\ parseddata[1].dbz >= DBZ_THRESHOLD
    /\ Entries = <<>>

\* ---- the downloader (SpecDownload)

Attempted(filename) ==
    \E k \in DOMAIN console :
        /\ console[k].msg \in {"Skipping", "Downloading"}
        /\ console[k].file = filename

HasError ==
    \E k \in DOMAIN console : console[k].msg = "Error downloading"

\* C9: a failed download is reported for its file only and does not end
\* the loop: every later filename of the list is still attempted.
C9_FailureDoesNotAbortLoop ==
    /\ \A k \in DOMAIN console :
        console[k].msg = "Error downloading" =>
            /\ k > 1
            /\ console[k - 1].msg = "Downloading"
            /\ console[k - 1].file = console[k].file
    /\ dpc = "loop" => \A j \in 1..(idx - 1) : Attempted(links[j])
    /\ (dpc = "exited" /\ HasError) =>
        /\ console[Len(console)].msg = "Process finished"
        /\ \A j \in DOMAIN links : Attempted(links[j])

\* the first file failed and the second was downloaded all the same
C9_Witness ==
    /\ dpc = "exited"
    /\ Len(links) >= 2
    /\ \E k \in DOMAIN console :
        /\ console[k].msg = "Error downloading"
        /\ console[k].file = links[1]
    /\ \E k \in DOMAIN console :
        /\ console[k].msg = "Successfully downloaded"
        /\ console[k].file = links[2]

\* C10: every file in the destination directory is completely
\* downloaded: a download that fails part-way leaves no file behind.
C10_NoPartialFileLeft ==
    \A h \in DOMAIN local : local[h] \in {"absent", "complete"}

====
